---- MODULE Spec2Model ----
(***************************************************************************)
(* Model of lib/munkey-rpc/build.py: the proto-build command line tool.    *)
(*                                                                         *)
(* Strings are sequences of tokens.  A token is a separator ("/" or the    *)
(* backslash), the dot ".", the drive "C:", or a dot-free and              *)
(* separator-free run of characters ("a", "node_modules", "protoc", ...).  *)
(* A path component (a name) is a non-empty string without separators,     *)
(* and a pathlib.Path is the record [drive, root, parts]: its drive (""    *)
(* or "C:"), the number of leading separators kept as its root (0, 1 or    *)
(* 2), and the sequence of its names.  The parts of the record are the     *)
(* names only: the anchor that pathlib puts first in Path.parts ("/",      *)
(* "C:\") is the drive and root of the record, and the root directory is   *)
(* the path without names.                                                 *)
(*                                                                         *)
(* The file system holds directories only and no symbolic links, so that   *)
(* Path.resolve() is: make absolute against the working directory, then    *)
(* fold ".." lexically.  A directory may be unsearchable: the user of the  *)
(* tool has no search permission on it, and every system call on a path    *)
(* below it fails.  A path that does not exist may be refused: the system  *)
(* call that creates a directory there fails (its parent cannot be written *)
(* by the user, a file is in the way, the device is full).  On the "nt"    *)
(* host the -o strings are those without a UNC prefix and without names    *)
(* that end in a dot (IsPortable).                                         *)
(***************************************************************************)
EXTENDS Integers, Sequences, FiniteSets, TLC

\* ---------------------------------------------------------------- bounds
\* longest -o argument, in tokens
MaxLen == 3
\* exit statuses of the compiler process range over -MaxStatus..MaxStatus
MaxStatus == 2

\* ---------------------------------------------------------------- strings
Alphabet == {"/", ".", "a"}

Strings(n) == UNION {[1..k -> Alphabet] : k \in 0..n}

ExitStatuses == (0 - MaxStatus)..MaxStatus

Seps(os) == IF os = "nt" THEN {"/", "\\"} ELSE {"/"}

Sep(os) == IF os = "nt" THEN "\\" ELSE "/"

\* number of separators a string starts with
RECURSIVE LeadingSeps(_, _)
LeadingSeps(s, os) ==
    IF s = <<>> \/ Head(s) \notin Seps(os) THEN 0
    ELSE 1 + LeadingSeps(Tail(s), os)

\* the names of a string: maximal separator-free runs, "." names dropped
RECURSIVE SplitNames(_, _, _, _)
SplitNames(s, os, cur, acc) ==
    LET flush == IF cur = <<>> \/ cur = <<".">> THEN acc ELSE Append(acc, cur)
    IN  IF s = <<>> THEN flush
        ELSE IF Head(s) \in Seps(os) THEN SplitNames(Tail(s), os, <<>>, flush)
        ELSE SplitNames(Tail(s), os, Append(cur, Head(s)), acc)

\* pathlib.Path(s)
PathOf(s, os) ==
    LET hasDrive == os = "nt" /\ s # <<>> /\ Head(s) = "C:"
        rest == IF hasDrive THEN Tail(s) ELSE s
        n == LeadingSeps(rest, os)
    IN  [drive |-> IF hasDrive THEN "C:" ELSE "",
         root  |-> IF n = 0 THEN 0
                   ELSE IF n = 2 /\ os # "nt" THEN 2
                   ELSE 1,
         parts |-> SplitNames(rest, os, <<>>, <<>>)]

RECURSIVE Flatten(_, _)
Flatten(names, sep) ==
    IF names = <<>> THEN <<>>
    ELSE IF Len(names) = 1 THEN Head(names)
    ELSE Head(names) \o <<sep>> \o Flatten(Tail(names), sep)

\* str(path)
Str(p, os) ==
    LET anchor == (IF p.drive = "" THEN <<>> ELSE <<p.drive>>)
                  \o [i \in 1..p.root |-> Sep(os)]
    IN  IF anchor = <<>> /\ p.parts = <<>> THEN <<".">>
        ELSE anchor \o Flatten(p.parts, Sep(os))

\* path.joinpath(*names), for relative names
JoinPath(p, names) == [p EXCEPT !.parts = p.parts \o names]

\* path.is_absolute()
IsAbsolute(p, os) ==
    IF os = "nt" THEN p.drive # "" /\ p.root > 0 ELSE p.root > 0

\* ".." steps folded from left to right; the root is its own parent
RECURSIVE Normalize(_, _)
Normalize(names, acc) ==
    IF names = <<>> THEN acc
    ELSE IF Head(names) = <<".", ".">>
         THEN Normalize(Tail(names),
                        IF acc = <<>> THEN acc ELSE SubSeq(acc, 1, Len(acc) - 1))
    ELSE Normalize(Tail(names), Append(acc, Head(names)))

\* Path.cwd() for the working directory whose names are wd
CwdPath(wd, os) ==
    [drive |-> IF os = "nt" THEN "C:" ELSE "", root |-> 1, parts |-> wd]

\* resolve() that leaves a relative path relative
ResolveKeepsRelative(p, wd, os) ==
    [drive |-> p.drive, root |-> p.root, parts |-> Normalize(p.parts, <<>>)]

\* path.resolve()
Resolve(p, wd, os) ==
    LET rel == (p.root = 0)
    IN  [drive |-> CwdPath(wd, os).drive,
         root  |-> 1,
         parts |-> Normalize(IF rel THEN wd \o p.parts ELSE p.parts, <<>>)]

\* name.rfind("."), searching the first i tokens: the position of the last
\* "." counted from 0 as str.rfind counts, -1 when the name has none
RECURSIVE RFindDot(_, _)
RFindDot(name, i) ==
    IF i = 0 THEN -1
    ELSE IF name[i] = "." THEN i - 1
    ELSE RFindDot(name, i - 1)

\* path.with_suffix(suffix): the last name loses its own suffix, if it has
\* one, and gets the given one
WithSuffix(p, suffix) ==
    LET name == p.parts[Len(p.parts)]
        i    == RFindDot(name, Len(name))
        stem == IF 0 < i /\ i < Len(name) - 1 THEN SubSeq(name, 1, i) ELSE name
    IN  [p EXCEPT !.parts[Len(p.parts)] = stem \o suffix]

DotCmd == <<".", "cmd">>

\* extend_paths that returns its argument on every host
extend_paths_no_suffix(path_list, wd, os) == path_list

\* extend_paths(path_list)
extend_paths(path_list, wd, os) ==
    IF os = "nt"
    THEN [i \in 1..Len(path_list) |-> Resolve(WithSuffix(path_list[i], DotCmd), wd, os)]
    ELSE path_list

\* the platform-specific compiler identifier
ExeFor(e, os) == IF os = "nt" THEN e \o DotCmd ELSE e

\* the prefixes of a sequence of names, the empty one (the root) included
Prefixes(names) == {SubSeq(names, 1, k) : k \in 0..Len(names)}

\* the argument of check_call with the compiler identifier as the command
CheckCallArgsExe(tsPlugin, grpcPlugin, tsPath, srcPath, e, os) ==
    << e,
       <<"--plugin=protoc-gen-ts=">> \o Str(tsPlugin, os),
       <<"--plugin=protoc-gen-grpc=">> \o Str(grpcPlugin, os),
       <<"--ts_out=grpc_js:">> \o Str(tsPath, os),
       <<"--js_out=import_style=commonjs:">> \o Str(tsPath, os),
       <<"--grpc_out=grpc_js:">> \o Str(tsPath, os),
       <<"-I">> \o Str(srcPath, os),
       <<"munkey", ".", "proto">> >>

\* the argument of check_call with the JavaScript output sent to the source
\* directory
CheckCallArgsJsToSrc(tsPlugin, grpcPlugin, tsPath, srcPath, e, os) ==
    << <<"protoc">>,
       <<"--plugin=protoc-gen-ts=">> \o Str(tsPlugin, os),
       <<"--plugin=protoc-gen-grpc=">> \o Str(grpcPlugin, os),
       <<"--ts_out=grpc_js:">> \o Str(tsPath, os),
       <<"--js_out=import_style=commonjs:">> \o Str(srcPath, os),
       <<"--grpc_out=grpc_js:">> \o Str(tsPath, os),
       <<"-I">> \o Str(srcPath, os),
       <<"munkey", ".", "proto">> >>

\* the argument of check_call
CheckCallArgs(tsPlugin, grpcPlugin, tsPath, srcPath, e, os) ==
    << <<"protoc">>,
       <<"--plugin=protoc-gen-ts=">> \o Str(tsPlugin, os),
       <<"--plugin=protoc-gen-grpc=">> \o Str(grpcPlugin, os),
       <<"--ts_out=grpc_js:">> \o Str(tsPath, os),
       <<"--js_out=import_style=commonjs:">> \o Str(tsPath, os),
       <<"--grpc_out=grpc_js:">> \o Str(tsPath, os),
       <<"-I">> \o Str(srcPath, os),
       <<"munkey", ".", "proto">> >>

\* ---------------------------------------------------------------- inputs
\* a -o string the "nt" host reads as the other host does
IsPortable(s) ==
    /\ LeadingSeps(s, "nt") < 2
    /\ \A i \in 1..Len(s) :
          (s[i] = "." /\ (i = Len(s) \/ s[i + 1] = "/"))
              => \/ i = 1
                 \/ s[i - 1] = "/"
                 \/ (s[i - 1] = "." /\ (i = 2 \/ s[i - 2] = "/"))

OutArgs(os) ==
    IF os = "nt" THEN {s \in Strings(MaxLen) : IsPortable(s)}
    ELSE Strings(MaxLen)

\* the working directories
Cwds == { <<>>, << <<"w">> >> }

\* the directory trees that exist before the run, besides the working
\* directory and its parents
FsSeeds(wd) ==
    {<<>>} \cup UNION { { base \o << <<"bin">> >>, base \o << <<"bin">>, <<"ts">> >> }
                        : base \in {wd, << <<"a">> >>, wd \o << <<"a">> >>} }

\* the paths whose creation the operating system may refuse
RefusalCandidates(wd) ==
    UNION { Prefixes(base \o << <<"bin">>, <<"ts">> >>)
            : base \in {wd, << <<"a">> >>, wd \o << <<"a">> >>} }

\* is a directory above the named one unsearchable
Unreachable(names, closed) ==
    \E k \in 0..(Len(names) - 1) : SubSeq(names, 1, k) \in closed

\* the depths at which mkdir has to create a directory that is refused
Refusals(names, existing, denied) ==
    {j \in 1..Len(names) :
        SubSeq(names, 1, j) \notin existing /\ SubSeq(names, 1, j) \in denied}

\* can mkdir(exist_ok=True, parents=True) of the named directory return
MkdirPermitted(names, existing, closed, denied) ==
    /\ ~Unreachable(names, closed)
    /\ Refusals(names, existing, denied) = {}

\* the directories after mkdir(exist_ok=True, parents=True): nothing new
\* below an unsearchable directory; otherwise the missing directories of the
\* path from the top down, up to the first one that is refused
AfterMkdir(names, existing, closed, denied) ==
    IF Unreachable(names, closed) THEN existing
    ELSE LET r == Refusals(names, existing, denied)
         IN  IF r = {} THEN existing \cup Prefixes(names)
             ELSE LET j == CHOOSE m \in r : \A n \in r : m <= n
                  IN  existing \cup Prefixes(SubSeq(names, 1, j - 1))

NoPath == [drive |-> "", root |-> 0, parts |-> <<>>]

\* ---------------------------------------------------------------- state
VARIABLES
    os_name,           \* os.name
    cwd,               \* the names of the working directory
    cli,               \* the command line: [given, out]
    dirs,              \* the directories that exist, each by its names
    unsearchable,      \* those of them the user of the tool cannot search
    refused,           \* the missing paths where no directory can be created
    pc,                \* the position of the run
    args_out,          \* args.out
    exe, root_path, node_modules, ts_plugin_path, grpc_plugin_path,
    src_path, out_path, ts_path,
    cmd,               \* the list handed to check_call
    child,             \* the compiler process: "none", "running", "exited"
    returncode,        \* its exit status
    spawn_count,       \* how many processes the run has started
    stdout,            \* what print() wrote
    raised,            \* the exception that ended the run, "" when none
    exit_status        \* the exit status of the tool, -1 while it runs

vars == <<os_name, cwd, cli, dirs, unsearchable, refused,
          pc, args_out, exe, root_path, node_modules,
          ts_plugin_path, grpc_plugin_path, src_path, out_path, ts_path, cmd,
          child, returncode, spawn_count, stdout, raised, exit_status>>

env == <<os_name, cwd, cli, unsearchable, refused>>

locals == <<exe, root_path, node_modules, ts_plugin_path, grpc_plugin_path,
            src_path, out_path, ts_path>>

proc == <<cmd, child, returncode, spawn_count>>

Init ==
    /\ os_name \in {"posix", "nt"}
    /\ cwd \in Cwds
    /\ cli \in [given : {TRUE}, out : OutArgs(os_name)]
               \cup {[given |-> FALSE, out |-> <<>>]}
    /\ \E seed \in FsSeeds(cwd) : dirs = Prefixes(cwd) \cup Prefixes(seed)
    /\ unsearchable \in {{}} \cup {{d} : d \in dirs \ Prefixes(cwd)}
    /\ refused \in {{}} \cup {{d} : d \in RefusalCandidates(cwd) \ dirs}
    /\ pc = "parse"
    /\ args_out = <<>>
    /\ exe = <<>>
    /\ root_path = NoPath
    /\ node_modules = NoPath
    /\ ts_plugin_path = NoPath
    /\ grpc_plugin_path = NoPath
    /\ src_path = NoPath
    /\ out_path = NoPath
    /\ ts_path = NoPath
    /\ cmd = <<>>
    /\ child = "none"
    /\ returncode = 0
    /\ spawn_count = 0
    /\ stdout = <<>>
    /\ raised = ""
    /\ exit_status = -1

\* parser.parse_args(): -o/--out, by default str(pathlib.Path.cwd())
ParseArgs ==
    /\ pc = "parse"
    /\ args_out' = IF cli.given THEN cli.out ELSE Str(CwdPath(cwd, os_name), os_name)
    /\ pc' = "compute"
    /\ UNCHANGED <<env, dirs, locals, proc, stdout, raised, exit_status>>

\* main: the paths under the output root
ComputePaths ==
    /\ pc = "compute"
    /\ LET root == PathOf(args_out, os_name)
           nm   == JoinPath(root, << <<"node_modules">> >>)
           out  == JoinPath(root, << <<"bin">> >>)
       IN  /\ exe' = <<"grpc_tools_node_protoc">>
           /\ root_path' = root
           /\ node_modules' = nm
           /\ ts_plugin_path' = JoinPath(nm, << <<".", "bin">>, <<"protoc-gen-ts">> >>)
           /\ grpc_plugin_path' =
                  JoinPath(nm, << <<".", "bin">>, <<"grpc_tools_node_protoc_plugin">> >>)
           /\ src_path' = Resolve(JoinPath(root, << <<"src">> >>), cwd, os_name)
           /\ out_path' = out
           /\ ts_path' = Resolve(JoinPath(out, << <<"ts">> >>), cwd, os_name)
    /\ pc' = "extend"
    /\ UNCHANGED <<env, dirs, args_out, proc, stdout, raised, exit_status>>

\* main: the platform-specific extensions
ExtendPlatform ==
    /\ pc = "extend"
    /\ LET ext == extend_paths(<<ts_plugin_path, grpc_plugin_path>>, cwd, os_name)
       IN  /\ ts_plugin_path' = ext[1]
           /\ grpc_plugin_path' = ext[2]
    /\ exe' = ExeFor(exe, os_name)
    /\ pc' = "mkdir"
    /\ UNCHANGED <<env, dirs, args_out, root_path, node_modules, src_path, out_path,
                   ts_path, proc, stdout, raised, exit_status>>

\* main without the mkdir call
MkdirSkipped ==
    /\ pc = "mkdir"
    /\ MkdirPermitted(ts_path.parts, dirs, unsearchable, refused)
    /\ dirs' = dirs
    /\ pc' = "call"
    /\ UNCHANGED <<env, args_out, locals, proc, stdout, raised, exit_status>>

\* ts_path.mkdir(exist_ok=True, parents=True) returns: the directory is
\* there, or it and the missing directories above it are created
MkdirOk ==
    /\ pc = "mkdir"
    /\ MkdirPermitted(ts_path.parts, dirs, unsearchable, refused)
    /\ dirs' = AfterMkdir(ts_path.parts, dirs, unsearchable, refused)
    /\ pc' = "call"
    /\ UNCHANGED <<env, args_out, locals, proc, stdout, raised, exit_status>>

\* a failure of mkdir that the handler of main catches and prints
MkdirFailCaught ==
    /\ pc = "mkdir"
    /\ ~MkdirPermitted(ts_path.parts, dirs, unsearchable, refused)
    /\ dirs' = AfterMkdir(ts_path.parts, dirs, unsearchable, refused)
    /\ stdout' = Append(stdout, [exc |-> "OSError", cmd |-> cmd, returncode |-> returncode])
    /\ exit_status' = 0
    /\ pc' = "done"
    /\ UNCHANGED <<env, args_out, locals, proc, raised>>

\* ts_path.mkdir(exist_ok=True, parents=True) raises, outside the try
\* statement: the run ends
MkdirFail ==
    /\ pc = "mkdir"
    /\ ~MkdirPermitted(ts_path.parts, dirs, unsearchable, refused)
    /\ dirs' = AfterMkdir(ts_path.parts, dirs, unsearchable, refused)
    /\ raised' = "OSError"
    /\ exit_status' = 1
    /\ pc' = "done"
    /\ UNCHANGED <<env, args_out, locals, proc, stdout>>

\* check_call starts the compiler process
SpawnOk ==
    /\ pc = "call"
    /\ cmd' = CheckCallArgs(ts_plugin_path, grpc_plugin_path, ts_path, src_path,
                            exe, os_name)
    /\ child' = "running"
    /\ spawn_count' = spawn_count + 1
    /\ pc' = "wait"
    /\ UNCHANGED <<env, dirs, args_out, locals, returncode, stdout, raised, exit_status>>

\* a handler that catches nothing
CaughtNone(exc) == FALSE

\* except Exception: a handler that catches everything
CaughtAll(exc) == TRUE

\* except CalledProcessError: the exceptions the handler of main catches
Caught(exc) == exc = "CalledProcessError"

\* the try statement of main, for an exception check_call raises: a caught
\* one is printed and main returns, any other one ends the run
AfterRaise(exc) ==
    IF Caught(exc)
    THEN /\ stdout' = Append(stdout, [exc |-> exc, cmd |-> cmd', returncode |-> returncode])
         /\ exit_status' = 0
         /\ raised' = raised
    ELSE /\ stdout' = stdout
         /\ exit_status' = 1
         /\ raised' = exc

\* check_call cannot start the compiler process: the executable is not found
SpawnFail ==
    /\ pc = "call"
    /\ cmd' = CheckCallArgs(ts_plugin_path, grpc_plugin_path, ts_path, src_path,
                            exe, os_name)
    /\ AfterRaise("OSError")
    /\ pc' = "done"
    /\ UNCHANGED <<env, dirs, args_out, locals, child, returncode, spawn_count>>

\* the compiler process terminates
ChildExit ==
    /\ child = "running"
    /\ \E rc \in ExitStatuses : returncode' = rc
    /\ child' = "exited"
    /\ UNCHANGED <<env, dirs, pc, args_out, locals, cmd, spawn_count, stdout, raised,
                   exit_status>>

\* check_call that returns without waiting for the compiler process
CheckCallReturnsEarly ==
    /\ pc = "wait"
    /\ returncode = 0
    /\ exit_status' = 0
    /\ pc' = "done"
    /\ UNCHANGED <<env, dirs, args_out, locals, proc, stdout, raised>>

\* check_call returns 0 and main returns
CheckCallReturns ==
    /\ pc = "wait"
    /\ child = "exited"
    /\ returncode = 0
    /\ exit_status' = 0
    /\ pc' = "done"
    /\ UNCHANGED <<env, dirs, args_out, locals, proc, stdout, raised>>

\* check_call raises CalledProcessError for a non-zero exit status
CheckCallRaises ==
    /\ pc = "wait"
    /\ child = "exited"
    /\ returncode # 0
    /\ UNCHANGED proc
    /\ AfterRaise("CalledProcessError")
    /\ pc' = "done"
    /\ UNCHANGED <<env, dirs, args_out, locals>>

MainStep ==
    \/ ParseArgs
    \/ ComputePaths
    \/ ExtendPlatform
    \/ MkdirOk
    \/ MkdirFail
    \/ SpawnOk
    \/ SpawnFail
    \/ CheckCallReturns
    \/ CheckCallRaises

Next ==
    \/ ParseArgs
    \/ ComputePaths
    \/ ExtendPlatform
    \/ MkdirOk
    \/ MkdirFail
    \/ SpawnOk
    \/ SpawnFail
    \/ ChildExit
    \/ CheckCallReturns
    \/ CheckCallRaises

Spec == Init /\ [][Next]_vars

\* the interpreter always takes the next step of main; nothing makes the
\* compiler process terminate
FairSpec == Spec /\ WF_vars(MainStep)

\* ---------------------------------------------------------------- claims
SrcName == <<"src">>

PluginDir == << <<"node_modules">>, <<".", "bin">> >>

ExeBase == <<"grpc_tools_node_protoc">>

EndsWith(s, suf) ==
    Len(s) >= Len(suf) /\ SubSeq(s, Len(s) - Len(suf) + 1, Len(s)) = suf

\* the output root R as a path: the -o argument, else the working directory
OutputRoot == IF cli.given THEN PathOf(cli.out, os_name) ELSE CwdPath(cwd, os_name)

\* the names of the absolute form of R
AbsRootParts ==
    Normalize(IF OutputRoot.root = 0 THEN cwd \o OutputRoot.parts ELSE OutputRoot.parts,
              <<>>)

Invoked == cmd # <<>>

\* C1: when the compiler process was started and exited with a non-zero
\* status, the error was caught and printed and the tool ends with the same
\* success status as after exit status 0.
C1_NonZeroExitEndsInSuccess ==
    (pc = "done" /\ child = "exited") =>
        /\ exit_status = 0
        /\ raised = ""
        /\ (returncode # 0 =>
               stdout = << [exc |-> "CalledProcessError", cmd |-> cmd,
                            returncode |-> returncode] >>)

C1_Witness ==
    pc = "done" /\ child = "exited" /\ returncode # 0 /\ Len(stdout) = 1

\* C2: after the adaptation step, on the "nt" host both plugin paths and the
\* compiler identifier end in ".cmd"; on any other host the step leaves all
\* three exactly as computed, with no suffix.
C2_PlatformAdaptation ==
    /\ [](pc \in {"mkdir", "call", "wait", "done"} =>
            IF os_name = "nt"
            THEN /\ EndsWith(Str(ts_plugin_path, os_name), DotCmd)
                 /\ EndsWith(Str(grpc_plugin_path, os_name), DotCmd)
                 /\ EndsWith(exe, DotCmd)
            ELSE /\ ~EndsWith(Str(ts_plugin_path, os_name), DotCmd)
                 /\ ~EndsWith(Str(grpc_plugin_path, os_name), DotCmd)
                 /\ ~EndsWith(exe, DotCmd))
    /\ [][(pc = "extend" /\ os_name # "nt") =>
            /\ ts_plugin_path' = ts_plugin_path
            /\ grpc_plugin_path' = grpc_plugin_path
            /\ exe' = exe]_vars

C2_Witness ==
    /\ pc = "mkdir"
    /\ os_name = "nt"
    /\ cli.given
    /\ Str(ts_plugin_path, os_name)
         = <<"C:", "\\", "a", "\\", "node_modules", "\\", ".", "bin", "\\",
             "protoc-gen-ts", ".", "cmd">>

\* C3 as stated: the command the tool spawns is the compiler identifier after
\* platform suffixing.
C3_SpawnsCompilerIdentifier ==
    Invoked => cmd[1] = exe

\* C3 amended: the command the tool spawns is "protoc" on every host; the
\* compiler identifier is "grpc_tools_node_protoc", with ".cmd" on the "nt"
\* host, and is no element of the spawned list.
C3_SpawnsProtoc ==
    Invoked =>
        /\ cmd[1] = <<"protoc">>
        /\ exe = (IF os_name = "nt" THEN ExeBase \o DotCmd ELSE ExeBase)
        /\ \A i \in 1..Len(cmd) : cmd[i] # exe

C3_Witness ==
    child = "running" /\ os_name = "nt" /\ exe = ExeBase \o DotCmd

\* C4: the list passed to the compiler holds, in this order after the
\* command: the two plugin registrations, the ts, js and grpc output
\* directives that name one and the same resolved generated path, the include
\* directive of the resolved source path, and last "munkey.proto".
C4_ArgumentOrder ==
    Invoked =>
        /\ Len(cmd) = 8
        /\ cmd[2] = <<"--plugin=protoc-gen-ts=">> \o Str(ts_plugin_path, os_name)
        /\ cmd[3] = <<"--plugin=protoc-gen-grpc=">> \o Str(grpc_plugin_path, os_name)
        /\ Head(cmd[4]) = "--ts_out=grpc_js:"
        /\ Head(cmd[5]) = "--js_out=import_style=commonjs:"
        /\ Head(cmd[6]) = "--grpc_out=grpc_js:"
        /\ Tail(cmd[4]) = Str(ts_path, os_name)
        /\ Tail(cmd[5]) = Tail(cmd[4])
        /\ Tail(cmd[6]) = Tail(cmd[4])
        /\ Head(cmd[7]) = "-I"
        /\ Tail(cmd[7]) = Str(src_path, os_name)
        /\ cmd[8] = <<"munkey", ".", "proto">>

C4_Witness ==
    /\ child = "running"
    /\ os_name = "posix"
    /\ cli.given
    /\ cmd[5] = <<"--js_out=import_style=commonjs:", "/", "w", "/", "a", "/", "bin",
                  "/", "ts">>

\* C5: every path in the list passed to the compiler (both plugin paths, the
\* generated path three times and the source path) is absolute.
C5_AllPathsAbsolute ==
    Invoked =>
        \A i \in 2..7 : IsAbsolute(PathOf(Tail(cmd[i]), os_name), os_name)

\* C6: the source path is the absolute form of R/src, the generated path the
\* absolute form of R/bin/ts, the plugin paths before suffixing are
\* R/node_modules/.bin/protoc-gen-ts and
\* R/node_modules/.bin/grpc_tools_node_protoc_plugin, and R is the working
\* directory when no -o argument is given.
C6_ComputedPaths ==
    (pc \notin {"parse", "compute"}) =>
        /\ root_path = OutputRoot
        /\ (~cli.given => root_path = CwdPath(cwd, os_name))
        /\ IsAbsolute(src_path, os_name)
        /\ src_path.parts = Append(AbsRootParts, SrcName)
        /\ IsAbsolute(ts_path, os_name)
        /\ ts_path.parts = AbsRootParts \o << <<"bin">>, <<"ts">> >>
        /\ (pc = "extend" =>
              /\ ts_plugin_path.drive = OutputRoot.drive
              /\ ts_plugin_path.root = OutputRoot.root
              /\ ts_plugin_path.parts
                   = OutputRoot.parts \o PluginDir \o << <<"protoc-gen-ts">> >>
              /\ grpc_plugin_path.drive = OutputRoot.drive
              /\ grpc_plugin_path.root = OutputRoot.root
              /\ grpc_plugin_path.parts
                   = OutputRoot.parts \o PluginDir
                       \o << <<"grpc_tools_node_protoc_plugin">> >>)

C6_Witness ==
    /\ pc = "extend"
    /\ cli.given
    /\ cli.out = <<".", "/", "a">>
    /\ cwd = << <<"w">> >>
    /\ src_path.parts = << <<"w">>, <<"a">>, <<"src">> >>
    /\ ts_plugin_path.root = 0

\* the parts of C7 about the order of the steps: an invoked compiler finds
\* the directory and its parents; directories are created only by the mkdir
\* step, after the paths are computed and adapted and before anything is
\* spawned, and only along the generated path
C7_CreatedInOrder(d, d2) ==
    /\ (cmd' # cmd => Prefixes(ts_path.parts) \subseteq d)
    /\ (d2 # d =>
            /\ pc = "mkdir"
            /\ ~Invoked /\ child = "none"
            /\ ts_path.parts = AbsRootParts \o << <<"bin">>, <<"ts">> >>
            /\ exe = (IF os_name = "nt" THEN ExeBase \o DotCmd ELSE ExeBase)
            /\ d2 \subseteq d \cup Prefixes(ts_path.parts))

\* C7 as stated: whenever the compiler is invoked the generated-output
\* directory and all its parents exist; the creation step succeeds both when
\* the directory is absent and when it is present; it happens after path
\* computation and adaptation and before the compiler is spawned.
C7_CreationAlwaysSucceeds ==
    /\ [](Invoked => Prefixes(ts_path.parts) \subseteq dirs)
    /\ [][(pc = "mkdir") =>
            (pc' = "call" /\ Prefixes(ts_path.parts) \subseteq dirs')]_vars
    /\ [][C7_CreatedInOrder(dirs, dirs')]_vars

\* C7 amended: whenever the compiler is invoked the generated-output
\* directory and all its parents exist; the creation step succeeds, both
\* when the directory is absent and when it is present, whenever the file
\* system permits it (no directory above it is unsearchable and no missing
\* directory of its path is refused), and then the directory and all its
\* parents exist; when the file system does not permit it the step fails,
\* also on a directory that is present; it happens after path computation
\* and adaptation and before the compiler is spawned.
C7_DirectoryBeforeInvocation ==
    /\ [](Invoked => Prefixes(ts_path.parts) \subseteq dirs)
    /\ [][(/\ pc = "mkdir"
           /\ ~Unreachable(ts_path.parts, unsearchable)
           /\ (Prefixes(ts_path.parts) \ dirs) \cap refused = {}) =>
            (pc' = "call" /\ Prefixes(ts_path.parts) \subseteq dirs')]_vars
    /\ [][(/\ pc = "mkdir"
           /\ \/ Unreachable(ts_path.parts, unsearchable)
              \/ (Prefixes(ts_path.parts) \ dirs) \cap refused # {}) =>
            pc' = "done"]_vars
    /\ [][C7_CreatedInOrder(dirs, dirs')]_vars

\* the directory was there before the run (only such a directory can be
\* unsearchable), the directories above it can be searched, mkdir has
\* returned and the compiler runs
C7_Witness ==
    /\ child = "running"
    /\ cli.given
    /\ cli.out = <<"a">>
    /\ ts_path.parts = << <<"w">>, <<"a">>, <<"bin">>, <<"ts">> >>
    /\ unsearchable = {ts_path.parts}
    /\ Prefixes(ts_path.parts) \subseteq dirs

\* C8: when creating the generated-output directory fails, be the directory
\* missing or present, the error is not caught: the run ends at once with a
\* fatal error, nothing is printed and the compiler is never invoked.
C8_MkdirFailureIsFatal ==
    /\ []((pc = "done" /\ ~Invoked) =>
            /\ raised = "OSError"
            /\ exit_status = 1
            /\ spawn_count = 0
            /\ child = "none"
            /\ stdout = <<>>)
    /\ []((pc \in {"call", "wait"} \/ Invoked) =>
            (ts_path.parts \in dirs /\ ~Unreachable(ts_path.parts, unsearchable)))
    /\ [][(pc = "mkdir" /\ (Unreachable(ts_path.parts, unsearchable)
                             \/ ts_path.parts \notin dirs')) =>
            (pc' = "done" /\ raised' = "OSError" /\ exit_status' = 1 /\ ~Invoked')]_vars
    /\ [][pc = "done" => vars' = vars]_vars

C8_Witness ==
    /\ pc = "done"
    /\ ~Invoked
    /\ raised = "OSError"
    /\ ts_path.parts \in dirs
    /\ Unreachable(ts_path.parts, unsearchable)

\* C9: the compiler is spawned at most once; while it runs the tool waits and
\* has not terminated; a run that spawned it has terminated only after the
\* compiler has; and once the compiler has terminated, with any status, the
\* tool terminates.
C9_BlockingInvocation ==
    /\ [](spawn_count <= 1)
    /\ [](child = "running" => (pc = "wait" /\ exit_status = -1))
    /\ []((pc = "done" /\ spawn_count = 1) => child = "exited")
    /\ (child = "exited" ~> pc = "done")

C9_Witness ==
    pc = "done" /\ spawn_count = 1 /\ child = "exited" /\ returncode = 0

\* C10: the handler of main handles only the non-zero exit status of a
\* process that was started; when the process cannot be started the error is
\* not caught, nothing is printed and the tool ends abnormally.
C10_SpawnFailureNotCaught ==
    /\ (stdout # <<>> => (child = "exited" /\ returncode # 0))
    /\ ((pc = "done" /\ Invoked /\ child = "none") =>
            /\ raised = "OSError"
            /\ exit_status = 1
            /\ stdout = <<>>
            /\ spawn_count = 0)

C10_Witness ==
    pc = "done" /\ Invoked /\ child = "none" /\ raised = "OSError"

====
